---- MODULE Spec2Model ----
(***************************************************************************)
(* A model of the EDF codec of OpenPSG/edf: the Writer (Create,            *)
(* WriteRecord, Close, writeHeader), the Reader (Open, Signal) and the     *)
(* SignalReader (Read), over a byte sink that is a sequence of bytes.      *)
(*                                                                         *)
(* Text is a sequence of ASCII codes.  A float64 is the rational <<n, d>>  *)
(* it stands for (d > 0, reduced); the inputs are dyadic rationals of      *)
(* small magnitude, for which the float64 operations of the code are       *)
(* exact wherever the model computes them exactly.                         *)
(*                                                                         *)
(* The repository holds two revisions of Writer.writeHeader: the one of    *)
(* writer.go, which pads every field with Sprintf("%-Ns") and checks no    *)
(* width, and the one with the writeChecked closure.  The variable         *)
(* checked says which of the two the Writer at hand was built from.        *)
(***************************************************************************)
EXTENDS Integers, Sequences, FiniteSets, TLC

\* ------------------------------------------------------------------ bounds
\* The most data records a Writer is driven to write.
MaxRecords == 2
\* The most SignalReaders taken from one Reader.
MaxReaders == 2
\* The longest buffer handed to SignalReader.Read.
MaxBuf == 3
\* The most Close calls on one Writer.
MaxCloses == 2
\* The size of the digital ranges of the small calibrations.
MaxCode == 3

\* ------------------------------------------------------- program constants
\* The data record ceiling of WriteRecord, in bytes.
MaxRecordBytes == 61440
\* The size of the bufio.Writer buffer WriteRecord writes through.
BufSize == 4096

\* -------------------------------------------------------------------- text
Min(a, b) == IF a < b THEN a ELSE b
Max(a, b) == IF a > b THEN a ELSE b
Abs(a) == IF a < 0 THEN -a ELSE a

Spaces(n) == [i \in 1..n |-> 32]

\* fmt.Sprintf("%-*s", width, s): pads on the right, never truncates.
PadRight(s, width) == IF Len(s) >= width THEN s ELSE s \o Spaces(width - Len(s))

IsDigit(c) == c >= 48 /\ c <= 57
IsSpace(c) == c \in {9, 10, 11, 12, 13, 32}
AllDigits(s) == \A i \in 1..Len(s) : IsDigit(s[i])

RECURSIVE Digits(_)
Digits(n) == IF n < 10 THEN <<48 + n>> ELSE Digits(n \div 10) \o <<48 + (n % 10)>>

\* fmt.Sprintf("%d", n)
Itoa(n) == IF n < 0 THEN <<45>> \o Digits(-n) ELSE Digits(n)

RECURSIVE DigitsVal(_)
DigitsVal(s) ==
    IF Len(s) = 0 THEN 0
    ELSE 10 * DigitsVal(SubSeq(s, 1, Len(s) - 1)) + (s[Len(s)] - 48)

\* strings.TrimSpace, on ASCII text.
TrimSpace(s) ==
    LET keep == {i \in 1..Len(s) : ~IsSpace(s[i])}
    IN IF keep = {} THEN <<>>
       ELSE LET lo == CHOOSE i \in keep : \A j \in keep : i <= j
                hi == CHOOSE i \in keep : \A j \in keep : i >= j
            IN SubSeq(s, lo, hi)

\* strconv.Atoi: an optional sign and one or more decimal digits.
Atoi(s) ==
    LET signed == Len(s) > 0 /\ s[1] \in {43, 45}
        body == IF signed THEN SubSeq(s, 2, Len(s)) ELSE s
    IN IF Len(body) > 0 /\ AllDigits(body)
       THEN [ok |-> TRUE, val |-> IF signed /\ s[1] = 45 THEN -DigitsVal(body) ELSE DigitsVal(body)]
       ELSE [ok |-> FALSE, val |-> 0]

\* --------------------------------------------------------------- rationals
RECURSIVE Gcd(_, _)
Gcd(a, b) == IF b = 0 THEN a ELSE Gcd(b, a % b)

\* The rational n/d, reduced, denominator positive.
Rat(n, d) ==
    LET g == Gcd(Abs(n), Abs(d))
        s == IF d < 0 THEN -1 ELSE 1
    IN <<(s * n) \div g, (s * d) \div g>>

RInt(k) == <<k, 1>>
RAdd(a, b) == Rat(a[1] * b[2] + b[1] * a[2], a[2] * b[2])
RSub(a, b) == Rat(a[1] * b[2] - b[1] * a[2], a[2] * b[2])
\* The product, with the common factors taken out before multiplying.
RMul(a, b) ==
    LET g1 == Gcd(Abs(a[1]), b[2])
        g2 == Gcd(Abs(b[1]), a[2])
    IN Rat((a[1] \div g1) * (b[1] \div g2), (a[2] \div g2) * (b[2] \div g1))
RDiv(a, b) == RMul(a, IF b[1] < 0 THEN <<-b[2], -b[1]>> ELSE <<b[2], b[1]>>)
RLe(a, b) == a[1] * b[2] <= b[1] * a[2]
RAbs(a) == <<Abs(a[1]), a[2]>>

\* Rounding of the non-negative n/d to the nearest integer, ties to even:
\* what strconv does for a float64 that holds n/d exactly.
RoundHalfEven(n, d) ==
    LET q == n \div d
        r == n % d
    IN IF 2 * r < d THEN q
       ELSE IF 2 * r > d THEN q + 1
       ELSE IF q % 2 = 0 THEN q ELSE q + 1

\* The integer part of n/d, rounded toward zero: Go's float64 to integer
\* conversion.
Trunc(a) == IF a[1] >= 0 THEN a[1] \div a[2] ELSE -((-a[1]) \div a[2])

\* The low 16 bits as a signed number: the conversion to int16 of a value
\* in the int32 range.
Int16(v) == ((v + 32768) % 65536) - 32768

\* fmt.Sprintf("%.2f", val): the integer part and the hundredths of the
\* rest, rounded, with the carry into the integer part.
Fixed2(val) ==
    LET whole == Abs(val[1]) \div val[2]
        frac == RoundHalfEven((Abs(val[1]) % val[2]) * 100, val[2])
        ip == IF frac = 100 THEN whole + 1 ELSE whole
        fp == IF frac = 100 THEN 0 ELSE frac
    IN (IF val[1] < 0 THEN <<45>> ELSE <<>>)
       \o Digits(ip) \o <<46, 48 + (fp \div 10), 48 + (fp % 10)>>

\* fmt.Sprintf("%.0f", val)
Fixed0(val) ==
    (IF val[1] < 0 THEN <<45>> ELSE <<>>) \o Digits(RoundHalfEven(Abs(val[1]), val[2]))

\* strconv.ParseFloat on decimal text without exponent: an optional sign,
\* digits, an optional point and digits, with one digit at least.
ParseFloat(s) ==
    LET signed == Len(s) > 0 /\ s[1] \in {43, 45}
        body == IF signed THEN SubSeq(s, 2, Len(s)) ELSE s
        dots == {i \in 1..Len(body) : body[i] = 46}
        dot == IF dots = {} THEN Len(body) + 1 ELSE CHOOSE i \in dots : TRUE
        ip == SubSeq(body, 1, dot - 1)
        fp == SubSeq(body, dot + 1, Len(body))
        scale == IF Len(fp) = 0 THEN 1 ELSE DigitsVal(<<49>> \o [i \in 1..Len(fp) |-> 48])
        mag == Rat(DigitsVal(ip) * scale + DigitsVal(fp), scale)
    IN IF Cardinality(dots) <= 1 /\ AllDigits(ip) /\ AllDigits(fp) /\ Len(ip) + Len(fp) > 0
       THEN [ok |-> TRUE, val |-> IF signed /\ s[1] = 45 THEN <<-mag[1], mag[2]>> ELSE mag]
       ELSE [ok |-> FALSE, val |-> <<0, 1>>]

\* parseFloat of the reader: a malformed field is 0.
parseFloat(b) == ParseFloat(TrimSpace(b)).val

\* parseInt of the reader: a malformed field is 0.
parseInt(b) == Atoi(TrimSpace(b)).val

\* -------------------------------------------------------------------- time
\* A time.Time: the wall clock fields, the nanoseconds within the second,
\* and whether the location is UTC.
TwoDigits(n) == <<48 + ((n \div 10) % 10), 48 + (n % 10)>>

\* StartTime.Format("02.01.06")
FormatDate(t) == TwoDigits(t.D) \o <<46>> \o TwoDigits(t.M) \o <<46>> \o TwoDigits(t.Y % 100)

\* StartTime.Format("15.04.05")
FormatTime(t) == TwoDigits(t.h) \o <<46>> \o TwoDigits(t.m) \o <<46>> \o TwoDigits(t.s)

IsLeap(y) == y % 4 = 0 /\ (y % 100 # 0 \/ y % 400 = 0)
DaysIn(m, y) ==
    IF m = 2 THEN (IF IsLeap(y) THEN 29 ELSE 28)
    ELSE IF m \in {4, 6, 9, 11} THEN 30 ELSE 31

\* time.Parse("02.01.06", s): two digits each; the year may carry a sign in
\* place of its first digit; years 69..99 are 19yy, the others 20yy.
ParseDate(s) ==
    LET wellFormed ==
            /\ Len(s) = 8
            /\ IsDigit(s[1]) /\ IsDigit(s[2]) /\ s[3] = 46
            /\ IsDigit(s[4]) /\ IsDigit(s[5]) /\ s[6] = 46
            /\ (IsDigit(s[7]) \/ s[7] \in {43, 45}) /\ IsDigit(s[8])
        d == DigitsVal(SubSeq(s, 1, 2))
        m == DigitsVal(SubSeq(s, 4, 5))
        yy == Atoi(SubSeq(s, 7, 8)).val
        y == IF yy >= 69 THEN 1900 + yy ELSE 2000 + yy
    IN IF wellFormed /\ m >= 1 /\ m <= 12 /\ d >= 1 /\ d <= DaysIn(m, y)
       THEN [ok |-> TRUE, Y |-> y, M |-> m, D |-> d]
       ELSE [ok |-> FALSE, Y |-> 0, M |-> 0, D |-> 0]

\* time.Parse("15.04.05", s): the hour has one or two digits, the minute
\* and the second two.
ParseTime(s) ==
    LET k == IF Len(s) >= 2 /\ IsDigit(s[2]) THEN 2 ELSE 1
        wellFormed ==
            /\ Len(s) = k + 6
            /\ AllDigits(SubSeq(s, 1, k)) /\ s[k + 1] = 46
            /\ IsDigit(s[k + 2]) /\ IsDigit(s[k + 3]) /\ s[k + 4] = 46
            /\ IsDigit(s[k + 5]) /\ IsDigit(s[k + 6])
        h == DigitsVal(SubSeq(s, 1, k))
        m == DigitsVal(SubSeq(s, k + 2, k + 3))
        sec == DigitsVal(SubSeq(s, k + 5, k + 6))
    IN IF wellFormed /\ h <= 23 /\ m <= 59 /\ sec <= 59
       THEN [ok |-> TRUE, h |-> h, m |-> m, s |-> sec]
       ELSE [ok |-> FALSE, h |-> 0, m |-> 0, s |-> 0]

\* A time.Duration is counted in milliseconds.
\* int(math.Ceil(d.Seconds()))
CeilSeconds(ms) == -((-ms) \div 1000)

\* time.ParseDuration(s + "s") for the text of the duration field: a
\* decimal number of seconds; anything else is no duration.
ParseDuration(s) ==
    LET f == ParseFloat(s)
    IN [ok |-> f.ok, val |-> Trunc(RMul(f.val, RInt(1000)))]

\* ------------------------------------------------------------ header codec
RECURSIVE Flatten(_)
Flatten(ss) == IF Len(ss) = 0 THEN <<>> ELSE Head(ss) \o Flatten(Tail(ss))

\* formatPhysicalValue of writer.go up to its padding: two decimals, or
\* none when two make more than 8 bytes.
PhysicalText(val) == IF Len(Fixed2(val)) > 8 THEN Fixed0(val) ELSE Fixed2(val)

\* formatPhysicalValue of writer.go: padded to 8 bytes, never cut.
formatPhysicalValue(val) == PadRight(PhysicalText(val), 8)

\* The formatPhysicalValue closure of the checked writeHeader: an error
\* when even the form without decimals is longer than 8 bytes.
formatPhysicalValueChecked(val) ==
    IF Len(PhysicalText(val)) > 8
    THEN [err |-> TRUE, out |-> <<>>]
    ELSE [err |-> FALSE, out |-> PadRight(PhysicalText(val), 8)]

\* The writeChecked closure: an error when value is longer than length,
\* else value padded to length.
writeChecked(value, length) ==
    IF Len(value) > length
    THEN [err |-> TRUE, out |-> <<>>]
    ELSE [err |-> FALSE, out |-> PadRight(value, length)]

\* 256 + (SignalCount * 256)
HeaderSize(signalCount) == 256 + (signalCount * 256)

\* The text fields writeHeader writes before it sets HeaderBytes, each with
\* its width.
LeadFields(h) ==
    << <<h.Version, 8>>, <<h.PatientID, 80>>, <<h.RecordingID, 80>>,
       <<FormatDate(h.StartTime), 8>>, <<FormatTime(h.StartTime), 8>> >>

\* The fields from HeaderBytes to SignalCount.
CountFields(h) ==
    << <<Itoa(HeaderSize(h.SignalCount)), 8>>, <<<<>>, 44>>,
       <<Itoa(h.DataRecords), 8>>,
       <<Itoa(CeilSeconds(h.DataRecordDuration)), 8>>,
       <<Itoa(h.SignalCount), 4>> >>

\* The text writeHeader writes for one field of a signal.  The reserved
\* block is written blank, whatever Signal.Reserved holds.
SignalText(sig, name) ==
    CASE name = "Label" -> sig.Label
      [] name = "TransducerType" -> sig.TransducerType
      [] name = "PhysicalDimension" -> sig.PhysicalDimension
      [] name = "PhysicalMin" -> PhysicalText(sig.PhysicalMin)
      [] name = "PhysicalMax" -> PhysicalText(sig.PhysicalMax)
      [] name = "DigitalMin" -> Itoa(sig.DigitalMin)
      [] name = "DigitalMax" -> Itoa(sig.DigitalMax)
      [] name = "Prefiltering" -> sig.Prefiltering
      [] name = "SamplesPerRecord" -> Itoa(sig.SamplesPerRecord)
      [] name = "Reserved" -> <<>>

\* One block of the signal part: the same field of every signal of
\* hdr.Signals, in order.
Block(h, name, width) ==
    [i \in 1..Len(h.Signals) |-> <<SignalText(h.Signals[i], name), width>>]

SignalFields(h) ==
    Block(h, "Label", 16) \o Block(h, "TransducerType", 80)
    \o Block(h, "PhysicalDimension", 8)
    \o Block(h, "PhysicalMin", 8) \o Block(h, "PhysicalMax", 8)
    \o Block(h, "DigitalMin", 8) \o Block(h, "DigitalMax", 8)
    \o Block(h, "Prefiltering", 80) \o Block(h, "SamplesPerRecord", 8)
    \o Block(h, "Reserved", 32)

AllFields(h) == LeadFields(h) \o CountFields(h) \o SignalFields(h)

\* The bytes the padding of writer.go makes of a list of fields.
Padded(fields) == Flatten([i \in 1..Len(fields) |-> PadRight(fields[i][1], fields[i][2])])

TooLong(fields) == \E i \in 1..Len(fields) : Len(fields[i][1]) > fields[i][2]

\* Writer.writeHeader of writer.go: every field padded to its width by
\* Sprintf, which leaves a longer value as long as it is; hdr.HeaderBytes
\* is recomputed.  The result: the error, the bytes flushed at offset 0,
\* the header afterwards.
writeHeader(h) ==
    [err |-> FALSE,
     out |-> Padded(AllFields(h)),
     hdr |-> [h EXCEPT !.HeaderBytes = HeaderSize(h.SignalCount)]]

\* Writer.writeHeader with writeChecked: the first field longer than its
\* width ends it with an error before anything is flushed; hdr.HeaderBytes
\* is recomputed once the fields before it have passed.
writeHeaderChecked(h) ==
    [err |-> TooLong(AllFields(h)),
     out |-> IF TooLong(AllFields(h)) THEN <<>> ELSE Padded(AllFields(h)),
     hdr |-> IF TooLong(LeadFields(h)) THEN h
             ELSE [h EXCEPT !.HeaderBytes = HeaderSize(h.SignalCount)]]

\* ------------------------------------------------------------------ reader
\* The length bytes of b from offset off (off counted from 0).
Slice(b, off, length) == SubSeq(b, off + 1, off + length)

\* The text of a header field: the bytes, trimmed.
Field(b, off, length) == TrimSpace(Slice(b, off, length))

NoTime == [Y |-> 0, M |-> 0, D |-> 0, h |-> 0, m |-> 0, s |-> 0, ns |-> 0, utc |-> TRUE]

NoHeader ==
    [Version |-> <<>>, PatientID |-> <<>>, RecordingID |-> <<>>, StartTime |-> NoTime,
     HeaderBytes |-> 0, DataRecordDuration |-> 0, DataRecords |-> 0,
     SignalCount |-> 0, Signals |-> <<>>]

\* The signal headers Open reads for signalCount signals: block after
\* block from offset 256, each block one field of every signal.
DecodeSignals(b, signalCount) ==
    LET n == signalCount
        at(start, width, i) == Slice(b, 256 + start * n + width * (i - 1), width)
    IN [i \in 1..n |->
          [Label |-> TrimSpace(at(0, 16, i)),
           TransducerType |-> TrimSpace(at(16, 80, i)),
           PhysicalDimension |-> TrimSpace(at(96, 8, i)),
           PhysicalMin |-> parseFloat(at(104, 8, i)),
           PhysicalMax |-> parseFloat(at(112, 8, i)),
           DigitalMin |-> parseInt(at(120, 8, i)),
           DigitalMax |-> parseInt(at(128, 8, i)),
           Prefiltering |-> TrimSpace(at(136, 80, i)),
           SamplesPerRecord |-> parseInt(at(216, 8, i)),
           Reserved |-> TrimSpace(at(224, 32, i))]]

\* Open on the bytes b, read from their start.  res is "ok" with the
\* decoded header, "err" for a returned error, "panic" when the signal
\* count is negative (make of a slice of negative length).
Open(b) ==
    LET date == ParseDate(Field(b, 168, 8))
        time == ParseTime(Field(b, 176, 8))
        headerBytes == Atoi(Field(b, 184, 8))
        numDataRecords == Atoi(Field(b, 236, 8))
        duration == ParseDuration(Field(b, 244, 8))
        signalCount == Atoi(Field(b, 252, 4))
        failed(res) == [res |-> res, hdr |-> NoHeader]
    IN IF Len(b) < 256 THEN failed("err")
       ELSE IF ~date.ok \/ ~time.ok THEN failed("err")
       ELSE IF ~headerBytes.ok \/ ~numDataRecords.ok THEN failed("err")
       ELSE IF ~duration.ok \/ ~signalCount.ok THEN failed("err")
       ELSE IF signalCount.val < 0 THEN failed("panic")
       ELSE IF Len(b) < 256 + 256 * signalCount.val THEN failed("err")
       ELSE [res |-> "ok",
             hdr |-> [Version |-> Field(b, 0, 8),
                      PatientID |-> Field(b, 8, 80),
                      RecordingID |-> Field(b, 88, 80),
                      StartTime |-> [Y |-> date.Y, M |-> date.M, D |-> date.D,
                                     h |-> time.h, m |-> time.m, s |-> time.s,
                                     ns |-> 0, utc |-> TRUE],
                      HeaderBytes |-> headerBytes.val,
                      DataRecordDuration |-> duration.val,
                      DataRecords |-> numDataRecords.val,
                      SignalCount |-> signalCount.val,
                      Signals |-> DecodeSignals(b, signalCount.val)]]

\* ------------------------------------------------------------ sample codec
\* The conversion without the digital minimum added.
convertPhysicalToDigitalFromZero(physical, pmin, pmax, dmin, dmax, e) ==
    IF pmax = pmin THEN 0
    ELSE Int16(Trunc(RDiv(RMul(RSub(physical, pmin), RInt(dmax - dmin)), RSub(pmax, pmin))))

\* convertPhysicalToDigital: 0 when pmax = pmin; else the affine image of
\* physical, cut toward zero and to 16 bits.  e is the sign of the rounding
\* error of the float64 computation (-1, 0 or 1): it decides the integer
\* only when the exact value is one, and is 0 when the computation is
\* exact.
convertPhysicalToDigital(physical, pmin, pmax, dmin, dmax, e) ==
    IF pmax = pmin THEN 0
    ELSE LET digital == RAdd(RDiv(RMul(RSub(physical, pmin), RInt(dmax - dmin)),
                                  RSub(pmax, pmin)),
                             RInt(dmin))
             t == Trunc(digital)
         IN Int16(IF digital[2] # 1 THEN t
                  ELSE IF e < 0 /\ t > 0 THEN t - 1
                  ELSE IF e > 0 /\ t < 0 THEN t + 1
                  ELSE t)

\* convertDigitalToPhysical: 0 when dmax = dmin; else the affine image of
\* digital.
convertDigitalToPhysical(digital, dmin, dmax, pmin, pmax) ==
    IF dmax = dmin THEN <<0, 1>>
    ELSE RAdd(pmin, RDiv(RMul(RInt(digital - dmin), RSub(pmax, pmin)), RInt(dmax - dmin)))

\* Whether a float64 holds the rational exactly: a denominator that is a
\* power of two.
RECURSIVE IsPow2(_)
IsPow2(d) == d = 1 \/ (d % 2 = 0 /\ IsPow2(d \div 2))
Exact(a) == IsPow2(a[2])

\* binary.Write(writer, binary.LittleEndian, int16(v)): two bytes.
LittleEndian(v) == <<(v % 65536) % 256, (v % 65536) \div 256>>

\* int16(binary.LittleEndian.Uint16(buf))
FromLittleEndian(buf) == Int16(buf[1] + 256 * buf[2])

\* ------------------------------------------------------------------ inputs
Text(n) == [i \in 1..n |-> 76]

Time0 == [Y |-> 2024, M |-> 3, D |-> 5, h |-> 14, m |-> 7, s |-> 9, ns |-> 0, utc |-> TRUE]

\* A signal with the calibration of TestWriter.
Sig(samplesPerRecord) ==
    [Label |-> Text(3), TransducerType |-> Text(2), PhysicalDimension |-> Text(2),
     PhysicalMin |-> <<-500, 1>>, PhysicalMax |-> <<500, 1>>,
     DigitalMin |-> -2048, DigitalMax |-> 2047,
     Prefiltering |-> <<>>, SamplesPerRecord |-> samplesPerRecord, Reserved |-> <<>>]

\* A second calibration: ten digital units to the physical unit.
Sig10(samplesPerRecord) ==
    [Sig(samplesPerRecord) EXCEPT !.PhysicalMin = <<-100, 1>>, !.PhysicalMax = <<100, 1>>,
                                  !.DigitalMin = -1000, !.DigitalMax = 1000]

Hdr(signalCount, signals) ==
    [Version |-> <<48>>, PatientID |-> Text(1), RecordingID |-> Text(2),
     StartTime |-> Time0, HeaderBytes |-> 0, DataRecordDuration |-> 60000,
     DataRecords |-> 0, SignalCount |-> signalCount, Signals |-> signals]

HBase == Hdr(1, <<Sig(2)>>)
HTwo == Hdr(2, <<Sig(1), Sig10(2)>>)
\* A signal of no samples before one of one sample.
HZero == Hdr(2, <<Sig(0), Sig10(1)>>)
\* SignalCount above and below the number of signal descriptions.
HMore == Hdr(2, <<Sig(1)>>)
HFewer == Hdr(1, <<Sig(1), Sig10(1)>>)
HNone == Hdr(0, <<>>)
\* One signal whose record is exactly MaxRecordBytes long; its physical
\* bounds are equal, so that every sample is stored as 0.
HWide ==
    Hdr(1, <<[Sig(MaxRecordBytes \div 2) EXCEPT !.PhysicalMin = <<0, 1>>,
                                                !.PhysicalMax = <<0, 1>>]>>)
\* Fields one byte longer than their width.
HLongLabel == Hdr(1, <<[Sig(1) EXCEPT !.Label = Text(17)]>>)
HLongPatient == [HBase EXCEPT !.PatientID = Text(81)]
HLongDigital ==
    Hdr(1, <<[Sig(1) EXCEPT !.DigitalMin = -12345678,
                            !.PhysicalMin = <<0, 1>>, !.PhysicalMax = <<0, 1>>]>>)
\* A physical bound of 9 digits, and one that fits without its decimals.
HLongPhysical ==
    Hdr(1, <<[Sig(1) EXCEPT !.PhysicalMax = <<123456789, 1>>,
                            !.DigitalMin = 0, !.DigitalMax = 1]>>)
HFallback == Hdr(1, <<[Sig(1) EXCEPT !.PhysicalMax = <<246913, 2>>]>>)
\* A RecordingID of 168 bytes that ends in the text of the fields from the
\* start date to the signal count: "01.01.01", "01.01.01", "256", 44
\* blanks, "7", "1", "0".
CraftedID ==
    Text(80) \o <<48, 49, 46, 48, 49, 46, 48, 49>> \o <<48, 49, 46, 48, 49, 46, 48, 49>>
    \o PadRight(<<50, 53, 54>>, 8) \o Spaces(44) \o PadRight(<<55>>, 8)
    \o PadRight(<<49>>, 8) \o PadRight(<<48>>, 4)
HCrafted == [HNone EXCEPT !.RecordingID = CraftedID]
\* Values the header text does not hold as they are: a blank before a
\* text, half a second, three decimals, a reserved text, nanoseconds, a
\* local time of 1950, and HeaderBytes and DataRecords of the caller.
HLossy ==
    [Version |-> <<48>>, PatientID |-> <<32, 76>>, RecordingID |-> Text(2),
     StartTime |-> [Time0 EXCEPT !.Y = 1950, !.ns = 5, !.utc = FALSE],
     HeaderBytes |-> 7, DataRecordDuration |-> 500, DataRecords |-> 5,
     SignalCount |-> 1,
     Signals |-> <<[Sig(1) EXCEPT !.PhysicalMin = <<-4001, 8>>, !.Reserved = Text(1)]>>]
\* Calibration bounds that are equal.
HFlat == Hdr(1, <<[Sig(1) EXCEPT !.PhysicalMin = <<0, 1>>, !.PhysicalMax = <<0, 1>>,
                                 !.DigitalMin = 0, !.DigitalMax = 0]>>)

\* The headers of the full pipeline, and those of the header codec.
DataHeaders == {HBase, HTwo, HZero, HMore, HFewer}
CodecHeaders ==
    {HBase, HTwo, HNone, HMore, HFewer, HWide, HLongLabel, HLongPatient, HLongDigital,
     HLongPhysical, HFallback, HCrafted, HLossy, HFlat}

\* The samples of channel i of the record written after r others: as many
\* as the signal's SamplesPerRecord, counting on from 256 * r as the
\* records of TestWriter do.
Channel(h, i, r) ==
    LET n == IF i <= Len(h.Signals) THEN Max(h.Signals[i].SamplesPerRecord, 0) ELSE 1
    IN [j \in 1..n |-> <<256 * r + j - 1, 1>>]

Conforming(h, r) == [i \in 1..Max(h.SignalCount, 0) |-> Channel(h, i, r)]

\* One sample too many in the first channel.
Extra(h, r) ==
    [i \in 1..Max(h.SignalCount, 0) |->
        IF i = 1 THEN Append(Channel(h, i, r), <<0, 1>>) ELSE Channel(h, i, r)]

\* The records offered to WriteRecord: the conforming one, one with a
\* sample too many, one with a channel too many and one with a channel
\* too few.
RecordInputs(h, r) ==
    {Conforming(h, r), Extra(h, r), Append(Conforming(h, r), <<>>)}
    \cup (IF h.SignalCount > 0 THEN {Tail(Conforming(h, r))} ELSE {})

\* ------------------------------------------------------------------- state
VARIABLES
    checked,      \* whether the Writer's writeHeader is the one with writeChecked
    wstate,       \* "none", "open" (Create returned a Writer), "failed" (Create
                  \* returned an error), "panicked", "foreign" (no Writer: a file
                  \* of another origin)
    hdr,          \* Writer.hdr
    dataRecords,  \* Writer.dataRecords
    sink,         \* the bytes of the file
    pos,          \* the write position of the Writer's io.WriteSeeker
    supplied,     \* the Header handed to Create
    written,      \* the records of the WriteRecord calls that returned nil
    closes,       \* the number of Close calls that returned nil
    last,         \* the last call: [op, err, n]
    rstate,       \* "none", or the outcome of Open: "ok", "err", "panic"
    rhdr,         \* Reader.hdr
    rpos,         \* the seek position of the Reader's io.ReadSeeker
    srs,          \* the SignalReaders, in the order Signal returned them
    cal,          \* a calibration: [pmin, pmax, dmin, dmax]
    digital,      \* a digital code within the calibration's digital bounds
    physical,     \* <<convertDigitalToPhysical(digital)>>, once computed
    redigital     \* <<convertPhysicalToDigital(physical)>>, once computed

vars == <<checked, wstate, hdr, dataRecords, sink, pos, supplied, written, closes,
          last, rstate, rhdr, rpos, srs, cal, digital, physical, redigital>>

writerVars == <<checked, wstate, hdr, dataRecords, sink, pos, supplied, written, closes>>
readerVars == <<rstate, rhdr, rpos, srs>>
sampleVars == <<cal, digital, physical, redigital>>

NoCal == [pmin |-> <<0, 1>>, pmax |-> <<0, 1>>, dmin |-> 0, dmax |-> 0]

\* A call and what it returned: op and err; for WriteRecord k channels of
\* size samples in all; for Signal the index k; for Read n values into a
\* buffer of size for reader k.
Result(op, err, n, k, size) == [op |-> op, err |-> err, n |-> n, k |-> k, size |-> size]

\* The bytes of the file after bytes are written at offset at.
WriteAt(b, at, bytes) ==
    SubSeq(b, 1, at) \o bytes \o SubSeq(b, at + Len(bytes) + 1, Len(b))

\* The writeHeader of the Writer at hand.
EncodeHeader(h) == IF checked THEN writeHeaderChecked(h) ELSE writeHeader(h)

Idle ==
    /\ wstate = "none"
    /\ hdr = NoHeader
    /\ dataRecords = 0
    /\ sink = <<>>
    /\ pos = 0
    /\ supplied = NoHeader
    /\ written = <<>>
    /\ closes = 0
    /\ last = Result("", "", 0, 0, 0)
    /\ rstate = "none"
    /\ rhdr = NoHeader
    /\ rpos = 0
    /\ srs = <<>>

Init ==
    /\ checked \in BOOLEAN
    /\ Idle
    /\ cal = NoCal
    /\ digital = 0
    /\ physical = <<>>
    /\ redigital = <<>>

\* ------------------------------------------------------------------ writer
\* Create(w, h): DataRecords becomes -1 and the header is written at
\* offset 0; an error of writeHeader leaves no Writer.
Create(h) ==
    /\ wstate = "none"
    /\ LET enc == EncodeHeader([h EXCEPT !.DataRecords = -1])
       IN /\ wstate' = IF enc.err THEN "failed" ELSE "open"
          /\ hdr' = IF enc.err THEN NoHeader ELSE enc.hdr
          /\ sink' = WriteAt(sink, 0, enc.out)
          /\ pos' = Len(enc.out)
          /\ last' = Result("Create", IF enc.err THEN "FieldTooLong" ELSE "", 0, 0, 0)
    /\ supplied' = h
    /\ UNCHANGED <<checked, dataRecords, written, closes>>
    /\ UNCHANGED readerVars
    /\ UNCHANGED sampleVars

\* len(signals) != ew.hdr.SignalCount
SignalCountMismatch(signals, h) == Len(signals) # h.SignalCount

RECURSIVE TotalSamples(_)
TotalSamples(signals) ==
    IF Len(signals) = 0 THEN 0 ELSE Len(Head(signals)) + TotalSamples(Tail(signals))

\* The limit taken one byte too low: a record of MaxRecordBytes is refused.
RecordTooLargeAtLimit(totalSamples) == totalSamples * 2 >= MaxRecordBytes

\* totalSamples*2 > 61440
RecordTooLarge(totalSamples) == totalSamples * 2 > MaxRecordBytes

\* The bytes of channel i of a record: every sample converted with the
\* calibration of signal i and written as two little-endian bytes.
ChannelBytes(h, signals, i) ==
    LET sig == h.Signals[i]
        codes == [j \in 1..Len(signals[i]) |->
                    convertPhysicalToDigital(signals[i][j], sig.PhysicalMin, sig.PhysicalMax,
                                             sig.DigitalMin, sig.DigitalMax, 0)]
    IN [k \in 1..(2 * Len(signals[i])) |-> LittleEndian(codes[(k + 1) \div 2])[2 - (k % 2)]]

RECURSIVE RecordBytes(_, _, _)
\* The bytes of channels 1..n of a record, in signal order.
RecordBytes(h, signals, n) ==
    IF n = 0 THEN <<>>
    ELSE RecordBytes(h, signals, n - 1) \o ChannelBytes(h, signals, n)

\* What a bufio.Writer has passed on of n bytes before any Flush: the
\* whole buffers but the last.
Unflushed(n) == IF n = 0 THEN 0 ELSE ((n - 1) \div BufSize) * BufSize

\* WriteRecord(signals).  A wrong number of channels and a record above
\* MaxRecordBytes are errors before anything is written.  Then the
\* channels 1..SignalCount are written in order; ew.hdr.Signals[i] for a
\* channel without description panics, with the whole buffers of the
\* channels before it already in the file.
WriteRecord(signals) ==
    /\ wstate = "open"
    /\ rstate = "none"
    /\ dataRecords < MaxRecords
    /\ IF SignalCountMismatch(signals, hdr)
       THEN /\ last' = Result("WriteRecord", "SignalCountMismatch", 0, Len(signals), TotalSamples(signals))
            /\ UNCHANGED <<wstate, dataRecords, sink, pos, written>>
       ELSE IF RecordTooLarge(TotalSamples(signals))
       THEN /\ last' = Result("WriteRecord", "RecordTooLarge", 0, Len(signals), TotalSamples(signals))
            /\ UNCHANGED <<wstate, dataRecords, sink, pos, written>>
       ELSE IF hdr.SignalCount > Len(hdr.Signals)
       THEN LET bytes == RecordBytes(hdr, signals, Len(hdr.Signals))
                part == SubSeq(bytes, 1, Unflushed(Len(bytes)))
            IN /\ last' = Result("WriteRecord", "panic", 0, Len(signals), TotalSamples(signals))
               /\ wstate' = "panicked"
               /\ sink' = WriteAt(sink, pos, part)
               /\ pos' = pos + Len(part)
               /\ UNCHANGED <<dataRecords, written>>
       ELSE LET bytes == RecordBytes(hdr, signals, hdr.SignalCount)
            IN /\ last' = Result("WriteRecord", "", 0, Len(signals), TotalSamples(signals))
               /\ sink' = WriteAt(sink, pos, bytes)
               /\ pos' = pos + Len(bytes)
               /\ dataRecords' = dataRecords + 1
               /\ written' = Append(written, signals)
               /\ UNCHANGED wstate
    /\ UNCHANGED <<checked, hdr, supplied, closes>>
    /\ UNCHANGED readerVars
    /\ UNCHANGED sampleVars

\* Close(): hdr.DataRecords becomes the number of records written and the
\* header is written again at offset 0.
Close ==
    /\ wstate = "open"
    /\ rstate = "none"
    /\ closes < MaxCloses
    /\ LET enc == EncodeHeader([hdr EXCEPT !.DataRecords = dataRecords])
       IN /\ hdr' = enc.hdr
          /\ sink' = WriteAt(sink, 0, enc.out)
          /\ pos' = Len(enc.out)
          /\ closes' = IF enc.err THEN closes ELSE closes + 1
          /\ last' = Result("Close", IF enc.err THEN "FieldTooLong" ELSE "", 0, 0, 0)
    /\ UNCHANGED <<checked, wstate, dataRecords, supplied, written>>
    /\ UNCHANGED readerVars
    /\ UNCHANGED sampleVars

\* ------------------------------------------------------------------ reader
\* A file of another origin: the header of HBase closed over one record,
\* with the bytes of one field replaced.
ForeignBase ==
    Padded(AllFields([HBase EXCEPT !.DataRecords = 1])) \o <<0, 0, 3, 0>>

\* The fields Open turns into numbers, dates and times, as <<offset, width>>:
\* the start date and time, HeaderBytes, DataRecords, the duration, the
\* signal count, and of the one signal PhysicalMin, PhysicalMax,
\* DigitalMin, DigitalMax and SamplesPerRecord.
ParsedFields ==
    {<<168, 8>>, <<176, 8>>, <<184, 8>>, <<236, 8>>, <<244, 8>>, <<252, 4>>,
     <<360, 8>>, <<368, 8>>, <<376, 8>>, <<384, 8>>, <<472, 8>>}

\* What takes a field's place: letters, blanks, "-1" and "1.5".
FieldTexts == {<<76, 76>>, <<>>, <<45, 49>>, <<49, 46, 53>>}

\* The file of HTwo closed over two records of the samples of TestWriter.
ForeignTwo ==
    Padded(AllFields([HTwo EXCEPT !.DataRecords = 2]))
    \o RecordBytes(HTwo, Conforming(HTwo, 0), 2) \o RecordBytes(HTwo, Conforming(HTwo, 1), 2)

\* The files Open is given: the first as it is, with one field replaced
\* and with its last byte missing, and the second.
ForeignFiles ==
    {ForeignBase, SubSeq(ForeignBase, 1, Len(ForeignBase) - 1), ForeignTwo}
    \cup {WriteAt(ForeignBase, f[1], PadRight(t, f[2])) : f \in ParsedFields, t \in FieldTexts}

\* The file is one that no Writer of this run has written.
LoadFile(b) ==
    /\ wstate = "none"
    /\ wstate' = "foreign"
    /\ sink' = b
    /\ last' = Result("LoadFile", "", 0, 0, 0)
    /\ UNCHANGED <<checked, hdr, dataRecords, pos, supplied, written, closes>>
    /\ UNCHANGED readerVars
    /\ UNCHANGED sampleVars

\* Where the bufio.Reader of Open leaves the source after need bytes were
\* asked of it: whole buffers are read ahead, as far as the file goes.
ReadAhead(b, need) == Min(Len(b), ((need + BufSize - 1) \div BufSize) * BufSize)

\* Open(r) on the file, read from its start.
OpenFile ==
    /\ wstate # "none"
    /\ rstate = "none"
    /\ LET o == Open(sink)
       IN /\ rstate' = o.res
          /\ rhdr' = o.hdr
          /\ rpos' = ReadAhead(sink, IF o.res = "ok" THEN HeaderSize(o.hdr.SignalCount) ELSE 256)
          /\ last' = Result("Open", IF o.res = "ok" THEN "" ELSE o.res, 0, 0, 0)
    /\ UNCHANGED srs
    /\ UNCHANGED writerVars
    /\ UNCHANGED sampleVars

RECURSIVE SpanBefore(_, _)
\* The span counted in samples, not in bytes.
SpanBeforeInSamples(signals, n) ==
    IF n = 0 THEN 0 ELSE SpanBefore(signals, n - 1) + signals[n].SamplesPerRecord

\* The bytes the first n signals take in a data record.
SpanBefore(signals, n) ==
    IF n = 0 THEN 0 ELSE SpanBefore(signals, n - 1) + signals[n].SamplesPerRecord * 2

\* Reader.Signal(signalIndex): an error for an index outside hdr.Signals,
\* else a SignalReader at the start of the data, with the record size and
\* the signal's offset in a record.
Signal(signalIndex) ==
    /\ rstate = "ok"
    /\ Len(srs) < MaxReaders
    /\ IF signalIndex < 0 \/ signalIndex >= Len(rhdr.Signals)
       THEN /\ last' = Result("Signal", "SignalIndexOutOfRange", 0, signalIndex, 0)
            /\ UNCHANGED srs
       ELSE /\ last' = Result("Signal", "", 0, signalIndex, 0)
            /\ srs' = Append(srs,
                  [signalIndex |-> signalIndex,
                   currentRecord |-> 0,
                   currentSample |-> 0,
                   recordSize |-> SpanBefore(rhdr.Signals, Len(rhdr.Signals)),
                   signalOffset |-> SpanBefore(rhdr.Signals, signalIndex),
                   samplesPerRecord |-> rhdr.Signals[signalIndex + 1].SamplesPerRecord,
                   got |-> <<>>])
    /\ UNCHANGED <<rstate, rhdr, rpos>>
    /\ UNCHANGED writerVars
    /\ UNCHANGED sampleVars

\* The position of the sample a SignalReader is at.
SamplePos(sr) ==
    rhdr.HeaderBytes + sr.currentRecord * sr.recordSize + sr.signalOffset
    + sr.currentSample * 2

\* The SignalReader moved on by one sample.
Advance(sr) ==
    IF sr.currentSample + 1 >= sr.samplesPerRecord
    THEN [sr EXCEPT !.currentSample = 0, !.currentRecord = sr.currentRecord + 1]
    ELSE [sr EXCEPT !.currentSample = sr.currentSample + 1]

\* The physical value of the two bytes at offset at, for the SignalReader.
SampleAt(sr, at) ==
    LET sig == rhdr.Signals[sr.signalIndex + 1]
    IN convertDigitalToPhysical(FromLittleEndian(Slice(sink, at, 2)),
                                sig.DigitalMin, sig.DigitalMax,
                                sig.PhysicalMin, sig.PhysicalMax)

\* The end of the data records is passed by one record.
AtEndAfterLast(sr) == sr.currentRecord > rhdr.DataRecords

\* sr.currentRecord >= sr.hdr.DataRecords
AtEnd(sr) == sr.currentRecord >= rhdr.DataRecords

\* No seek: the source stays where the last read of any reader left it.
SeekNowhere(at, to) == at

\* sr.r.Seek(pos, io.SeekStart) with the source at offset at: the offset
\* the source is at afterwards.
Seek(at, to) == to

RECURSIVE ReadLoop(_, _, _, _)
\* The loop of Read with n values produced and room for size, the source
\* at offset at: the end of the data records is io.EOF, a negative
\* position a seek error, fewer than two bytes at the position a read
\* error.
ReadLoop(sr, n, size, at) ==
    IF n >= size THEN [sr |-> sr, n |-> n, err |-> "", rpos |-> at]
    ELSE IF AtEnd(sr)
    THEN [sr |-> sr, n |-> n, err |-> "EOF", rpos |-> at]
    ELSE IF SamplePos(sr) < 0
    THEN [sr |-> sr, n |-> n, err |-> "seek", rpos |-> at]
    ELSE LET from == Seek(at, SamplePos(sr))
         IN IF from + 2 > Len(sink)
            THEN [sr |-> sr, n |-> n, err |-> "read", rpos |-> Max(from, Len(sink))]
            ELSE ReadLoop([Advance(sr) EXCEPT !.got = Append(sr.got, SampleAt(sr, from))],
                          n + 1, size, from + 2)

\* SignalReader.Read(data) of reader k with len(data) = size.
Read(k, size) ==
    /\ k \in 1..Len(srs)
    /\ LET r == ReadLoop(srs[k], 0, size, rpos)
       IN /\ srs' = [srs EXCEPT ![k] = r.sr]
          /\ rpos' = r.rpos
          /\ last' = Result("Read", r.err, r.n, k, size)
    /\ UNCHANGED <<rstate, rhdr>>
    /\ UNCHANGED writerVars
    /\ UNCHANGED sampleVars

\* ----------------------------------------------------------- specifications
CreateFrom(headers) == \E h \in headers : Create(h)
WriteAny == \E signals \in RecordInputs(hdr, dataRecords) : WriteRecord(signals)
LoadAny == \E b \in ForeignFiles : LoadFile(b)
SignalAny == \E i \in -1..2 : Signal(i)
ReadAny == \E k \in 1..MaxReaders, size \in 1..MaxBuf : Read(k, size)

\* The full pipeline: write, then read the samples back.
Next ==
    \/ CreateFrom(DataHeaders)
    \/ WriteAny
    \/ Close
    \/ OpenFile
    \/ SignalAny
    \/ ReadAny

Spec == Init /\ [][Next]_vars

\* The header codec: every header, and files of another origin.
NextCodec ==
    \/ CreateFrom(CodecHeaders)
    \/ WriteAny
    \/ Close
    \/ LoadAny
    \/ OpenFile
    \/ SignalAny

SpecCodec == Init /\ [][NextCodec]_vars

\* Reading alone: a file as it is, whatever wrote it.
NextRead ==
    \/ LoadAny
    \/ OpenFile
    \/ SignalAny
    \/ ReadAny

SpecRead == Init /\ [][NextRead]_vars

\* The sample codec alone: a calibration and a digital code within its
\* digital bounds, decoded and encoded again.
Cal(pmin, pmax, dmin, dmax) == [pmin |-> pmin, pmax |-> pmax, dmin |-> dmin, dmax |-> dmax]

\* The calibration of TestWriter, one of ten units to the unit, one with
\* the physical bounds the other way round, one of ninths, and the ones
\* with equal physical bounds, equal digital bounds and both.
Calibrations ==
    {Cal(<<-500, 1>>, <<500, 1>>, -2048, 2047),
     Cal(<<-100, 1>>, <<100, 1>>, -1000, 1000),
     Cal(<<500, 1>>, <<-500, 1>>, -2048, 2047),
     Cal(<<0, 1>>, <<1, 1>>, -MaxCode, 2 * MaxCode),
     Cal(<<5, 1>>, <<5, 1>>, -MaxCode, MaxCode),
     Cal(<<0, 1>>, <<10, 1>>, MaxCode, MaxCode),
     Cal(<<0, 1>>, <<0, 1>>, MaxCode, MaxCode)}

InitSample ==
    /\ checked = FALSE
    /\ Idle
    /\ cal \in Calibrations
    /\ digital \in cal.dmin..cal.dmax
    /\ physical = <<>>
    /\ redigital = <<>>

\* convertDigitalToPhysical of the code.
Decode ==
    /\ physical = <<>>
    /\ physical' = <<convertDigitalToPhysical(digital, cal.dmin, cal.dmax, cal.pmin, cal.pmax)>>
    /\ UNCHANGED <<cal, digital, redigital>>
    /\ UNCHANGED <<writerVars, readerVars, last>>

\* convertPhysicalToDigital of the decoded value.  A value no float64
\* holds exactly was rounded by the decoding, to either side.
Encode ==
    /\ physical # <<>>
    /\ redigital = <<>>
    /\ \E e \in (IF Exact(physical[1]) THEN {0} ELSE {-1, 0, 1}) :
          redigital' = <<convertPhysicalToDigital(physical[1], cal.pmin, cal.pmax,
                                                  cal.dmin, cal.dmax, e)>>
    /\ UNCHANGED <<cal, digital, physical>>
    /\ UNCHANGED <<writerVars, readerVars, last>>

NextSample ==
    \/ Decode
    \/ Encode

SpecSample == InitSample /\ [][NextSample]_vars

\* ------------------------------------------------------------------ claims
\* Every channel of the record has the samples its signal takes per record.
IsConforming(h, signals) ==
    /\ Len(signals) = Len(h.Signals)
    /\ \A i \in 1..Len(signals) : Len(signals[i]) = h.Signals[i].SamplesPerRecord

\* Create with a header of one or more signals, records of the header's
\* shape only, one Close after the last of them, and Open.
WrittenAndClosed ==
    /\ wstate = "open"
    /\ supplied.SignalCount >= 1
    /\ supplied.SignalCount = Len(supplied.Signals)
    /\ \A r \in 1..Len(written) : IsConforming(supplied, written[r])
    /\ closes = 1
    /\ hdr.DataRecords = Len(written)
    /\ rstate # "none"

RECURSIVE WrittenValues(_, _)
\* The samples written for signal i (from 0) in the first r records.
WrittenValues(i, r) ==
    IF r = 0 THEN <<>> ELSE WrittenValues(i, r - 1) \o written[r][i + 1]

\* The physical decoding of the 16-bit code stored for a written sample of
\* signal i.
StoredValue(i, physicalValue) ==
    LET sig == supplied.Signals[i + 1]
    IN convertDigitalToPhysical(
           convertPhysicalToDigital(physicalValue, sig.PhysicalMin, sig.PhysicalMax,
                                    sig.DigitalMin, sig.DigitalMax, 0),
           sig.DigitalMin, sig.DigitalMax, sig.PhysicalMin, sig.PhysicalMax)

IsTestCalibration(sig) ==
    /\ sig.PhysicalMin = <<-500, 1>>
    /\ sig.PhysicalMax = <<500, 1>>
    /\ sig.DigitalMin = -2048
    /\ sig.DigitalMax = 2047

\* C1: after Create with a header of one or more signals, k records of the
\* header's shape and Close, the values Signal(i) and Read deliver are a
\* prefix of the k * samplesPerRecord values written for signal i, each the
\* physical decoding of the code stored for it and, for the calibration
\* -500..500 / -2048..2047, within 1.0 of the written value; a Read fills
\* the buffer as far as values remain, returns no error but end-of-data,
\* and end-of-data exactly when the buffer is not filled.
C1_WriteReadRoundTrip ==
    WrittenAndClosed =>
        /\ rstate = "ok"
        /\ \A k \in 1..Len(srs) :
              LET i == srs[k].signalIndex
                  wrote == WrittenValues(i, Len(written))
                  got == srs[k].got
              IN /\ Len(got) <= Len(wrote)
                 /\ \A j \in 1..Len(got) :
                       /\ j <= Len(wrote)
                       /\ got[j] = StoredValue(i, wrote[j])
                       /\ IsTestCalibration(supplied.Signals[i + 1])
                             => RLe(RAbs(RSub(got[j], wrote[j])), <<1, 1>>)
                 /\ (last.op = "Read" /\ last.k = k) =>
                       /\ last.err \in {"", "EOF"}
                       /\ last.n = Min(last.size, Len(wrote) - (Len(got) - last.n))
                       /\ (last.err = "EOF") <=> (last.n < last.size)

\* C2: when Close has followed the last successful WriteRecord, the
\* dataRecordCount Open decodes is the number of WriteRecord calls that
\* returned without error.
C2_DataRecordCount ==
    (wstate = "open" /\ closes >= 1 /\ hdr.DataRecords = Len(written) /\ rstate = "ok")
        => rhdr.DataRecords = Len(written)

\* C3: a WriteRecord whose number of channels differs from signalCount, or
\* whose samples take more than 61,440 bytes, returns one of the two
\* validation errors and leaves the sink's bytes, the write position and
\* the record counter as they were; a record of exactly 61,440 bytes with
\* the right number of channels is accepted and counted.
C3_RejectedRecordWritesNothing ==
    [][last'.op = "WriteRecord" =>
          IF last'.k # hdr.SignalCount \/ last'.size * 2 > 61440
          THEN /\ last'.err \in {"SignalCountMismatch", "RecordTooLarge"}
               /\ sink' = sink
               /\ pos' = pos
               /\ dataRecords' = dataRecords
          ELSE last'.size * 2 = 61440 =>
                  /\ last'.err = ""
                  /\ dataRecords' = dataRecords + 1
                  /\ pos' = pos + 61440]_vars

\* A record of 61,440 bytes was accepted and one of 61,442 bytes refused.
C3_Witness ==
    /\ last.op = "WriteRecord"
    /\ last.err = "RecordTooLarge"
    /\ last.size * 2 = 61442
    /\ dataRecords = 1
    /\ Len(written[1][1]) * 2 = 61440

\* C4: Create and Close return an error whenever the text of a header
\* field is longer than the field's width, and a header that was written
\* takes 256 bytes and 256 bytes per signal description.
C4_OverlongFieldFails ==
    /\ (last.op = "Create" /\ TooLong(AllFields([supplied EXCEPT !.DataRecords = -1])))
          => (last.err # "" /\ wstate = "failed")
    /\ (last.op = "Close" /\ TooLong(AllFields([hdr EXCEPT !.DataRecords = dataRecords])))
          => last.err # ""
    /\ (last.op = "Create" /\ last.err = "")
          => Len(sink) = 256 + 256 * Len(supplied.Signals)

\* A numeric field of the file that is not a calibration bound and has no
\* number in it: headerBytes, dataRecordCount, the duration, signalCount,
\* or the samplesPerRecord of a signal.
Unparsable(b) ==
    LET n == Atoi(Field(b, 252, 4))
    IN \/ ~Atoi(Field(b, 184, 8)).ok
       \/ ~Atoi(Field(b, 236, 8)).ok
       \/ ~ParseDuration(Field(b, 244, 8)).ok
       \/ ~n.ok
       \/ /\ n.val >= 0
          /\ Len(b) >= 256 + 256 * n.val
          /\ \E i \in 1..n.val : ~Atoi(Field(b, 256 + 216 * n.val + 8 * (i - 1), 8)).ok

\* C5: Open does not succeed on a file with a numeric field, other than a
\* calibration bound, that cannot be parsed.
C5_OpenFailsOnUnparsable ==
    (rstate # "none" /\ Len(sink) >= 256 /\ Unparsable(sink)) => rstate # "ok"

RECURSIVE SumSamples(_, _)
\* The samples per record of the first n signals together.
SumSamples(signals, n) ==
    IF n = 0 THEN 0 ELSE SumSamples(signals, n - 1) + signals[n].SamplesPerRecord

\* C6: Signal(index) with index < 0 or index >= signalCount returns an
\* error and no SignalReader; with any other index it returns a
\* SignalReader whose recordSize is twice the samples per record of all
\* signals and whose signalOffset is twice those of the signals before
\* index.
C6_SignalReaderGeometry ==
    [][last'.op = "Signal" =>
          IF last'.k < 0 \/ last'.k >= rhdr.SignalCount
          THEN last'.err # "" /\ srs' = srs
          ELSE /\ last'.err = ""
               /\ Len(srs') = Len(srs) + 1
               /\ SubSeq(srs', 1, Len(srs)) = srs
               /\ srs'[Len(srs')].signalIndex = last'.k
               /\ srs'[Len(srs')].recordSize
                     = 2 * SumSamples(rhdr.Signals, rhdr.SignalCount)
               /\ srs'[Len(srs')].signalOffset = 2 * SumSamples(rhdr.Signals, last'.k)]_vars

\* A SignalReader for the second of two signals, and then an index refused.
C6_Witness ==
    /\ last.op = "Signal"
    /\ last.err = "SignalIndexOutOfRange"
    /\ last.k = rhdr.SignalCount
    /\ Len(srs) = 1
    /\ srs[1].signalIndex = 1
    /\ srs[1].signalOffset = 2
    /\ srs[1].recordSize = 6

\* C7 as stated: for every calibration and every code d within its digital
\* bounds, the code of the physical value of d is within 1 of d.
C7_RoundTripAnyCalibration ==
    redigital # <<>> => Abs(redigital[1] - digital) <= 1

\* C7: for every calibration whose physical bounds differ and every code d
\* within its digital bounds, the code of the physical value of d is
\* within 1 of d.
C7_RoundTripWithin1 ==
    (redigital # <<>> /\ cal.pmin # cal.pmax) => Abs(redigital[1] - digital) <= 1

\* A code that comes back one lower, for the calibration of TestWriter.
C7_Witness ==
    /\ redigital # <<>>
    /\ cal = Cal(<<-500, 1>>, <<500, 1>>, -2048, 2047)
    /\ redigital[1] = digital - 1

\* The headers are the same but for HeaderBytes and DataRecords.
SameButCounts(a, b) ==
    [a EXCEPT !.HeaderBytes = 0, !.DataRecords = 0]
        = [b EXCEPT !.HeaderBytes = 0, !.DataRecords = 0]

\* C8: for a header with as many signal descriptions as its SignalCount
\* and no field longer than its width, Open on what Create wrote succeeds
\* with every field of the header as supplied, but HeaderBytes, which is
\* 256 + 256 * signalCount, and DataRecords, which is -1.
C8_HeaderRoundTrip ==
    (/\ wstate = "open"
     /\ closes = 0
     /\ supplied.SignalCount = Len(supplied.Signals)
     /\ ~TooLong(AllFields([supplied EXCEPT !.DataRecords = -1]))
     /\ rstate # "none")
        => /\ rstate = "ok"
           /\ SameButCounts(rhdr, supplied)
           /\ rhdr.HeaderBytes = 256 + 256 * supplied.SignalCount
           /\ rhdr.DataRecords = -1

\* C9: once the DataRecords of the Writer's header is a count, no call
\* changes it, and only Close turns the -1 of Create into a count.
C9_CountSetOnce ==
    [][(wstate = "open" /\ wstate' = "open") =>
          /\ hdr.DataRecords >= 0 => hdr'.DataRecords = hdr.DataRecords
          /\ hdr.DataRecords < 0 =>
                \/ hdr'.DataRecords = hdr.DataRecords
                \/ last'.op = "Close" /\ hdr'.DataRecords >= 0]_vars

\* C10: the header of a Writer and the header Open returns have as many
\* signal descriptions as their SignalCount.
C10_SignalCountIsLen ==
    /\ wstate = "open" => hdr.SignalCount = Len(hdr.Signals)
    /\ rstate = "ok" => rhdr.SignalCount = Len(rhdr.Signals)

\* C11: after a Create or Close that returned no error, the write position
\* is 256 + 256 * signalCount, the bytes before it are the header as the
\* file holds it, and that number is the HeaderBytes of the Writer's header
\* and the number in the headerBytes field of the file.
C11_HeaderBytesIsSize ==
    (last.op \in {"Create", "Close"} /\ last.err = "") =>
        /\ pos = 256 + 256 * hdr.SignalCount
        /\ Len(sink) >= pos
        /\ hdr.HeaderBytes = 256 + 256 * hdr.SignalCount
        /\ Atoi(Field(sink, 184, 8)) = [ok |-> TRUE, val |-> 256 + 256 * hdr.SignalCount]

C13_RecordLayout ==
    [][(/\ last'.op = "WriteRecord"
        /\ last'.err = ""
        /\ closes = 0
        /\ hdr.SignalCount = Len(hdr.Signals)) =>
          LET recordSize == 2 * SumSamples(hdr.Signals, Len(hdr.Signals))
              signals == written'[Len(written')]
          IN /\ recordSize <= 61440
             /\ pos = hdr.HeaderBytes + dataRecords * recordSize
             /\ pos' = pos + recordSize
             /\ Len(sink') = pos'
             /\ \A i \in 1..Len(hdr.Signals) :
                   /\ Len(signals[i]) = hdr.Signals[i].SamplesPerRecord
                   /\ \A j \in 1..Len(signals[i]) :
                         LET sig == hdr.Signals[i]
                             at == pos + 2 * SumSamples(hdr.Signals, i - 1) + 2 * (j - 1)
                         IN FromLittleEndian(Slice(sink', at, 2))
                               = convertPhysicalToDigital(signals[i][j],
                                     sig.PhysicalMin, sig.PhysicalMax,
                                     sig.DigitalMin, sig.DigitalMax, 0)]_vars

\* C14: no Close and no WriteRecord changes a byte from headerBytes on that
\* the file already holds, Close leaves the length of the file as it is,
\* and a successful WriteRecord writes from the end of the file on.
C14_RecordsKept ==
    [][(wstate = "open" /\ last'.op \in {"Close", "WriteRecord"}) =>
          /\ Len(sink') >= Len(sink)
          /\ SubSeq(sink', hdr.HeaderBytes + 1, Len(sink))
                = SubSeq(sink, hdr.HeaderBytes + 1, Len(sink))
          /\ last'.op = "Close" => Len(sink') = Len(sink)
          /\ (last'.op = "WriteRecord" /\ last'.err = "") => pos = Len(sink)]_vars

\* The samples a SignalReader takes of each record when it is the only
\* reader: one at the least, as the cursor is compared after a sample.
SoloSpan(sr) == IF sr.samplesPerRecord > 1 THEN sr.samplesPerRecord ELSE 1

\* Where the only reader of the file finds its value j (from 0).
SoloPos(sr, j) ==
    rhdr.HeaderBytes + (j \div SoloSpan(sr)) * sr.recordSize + sr.signalOffset
    + (j % SoloSpan(sr)) * 2

\* The value j (from 0) the only reader of the file is given.
SoloValue(sr, j) ==
    LET sig == rhdr.Signals[sr.signalIndex + 1]
    IN convertDigitalToPhysical(FromLittleEndian(Slice(sink, SoloPos(sr, j), 2)),
                                sig.DigitalMin, sig.DigitalMax,
                                sig.PhysicalMin, sig.PhysicalMax)

\* C15: however the Reads of the SignalReaders of one Reader are
\* interleaved, each reader has been given the values it is given as the
\* only reader, its cursor is where that many values leave it, it is told
\* end-of-data only after the values of all records, and an error only on
\* a sample the source cannot be positioned on or does not hold.
C15_ReadersIndependent ==
    \A k \in 1..Len(srs) :
        LET sr == srs[k]
            count == Len(sr.got)
            all == SoloSpan(sr) * (IF rhdr.DataRecords > 0 THEN rhdr.DataRecords ELSE 0)
        IN /\ count <= all
           /\ \A j \in 1..count : sr.got[j] = SoloValue(sr, j - 1)
           /\ sr.currentRecord = count \div SoloSpan(sr)
           /\ sr.currentSample = count % SoloSpan(sr)
           /\ (last.op = "Read" /\ last.k = k) =>
                 /\ last.err = "EOF" => count = all
                 /\ last.err = "" => last.n = last.size
                 /\ last.err \notin {"", "EOF"} =>
                       /\ count < all
                       /\ SoloPos(sr, count) < 0 \/ SoloPos(sr, count) + 2 > Len(sink)

\* Two readers of different signals, both part way through the records,
\* the first having read before and after a Read of the second.
C15_Witness ==
    /\ Len(srs) = 2
    /\ srs[1].signalIndex # srs[2].signalIndex
    /\ Len(srs[2].got) >= 1
    /\ srs[2].currentRecord < rhdr.DataRecords
    /\ last.op = "Read"
    /\ last.k = 1
    /\ last.n >= 1
    /\ Len(srs[1].got) > last.n
    /\ rpos = SoloPos(srs[1], Len(srs[1].got) - 1) + 2

====
